---- MODULE Spec2Model ----
\* Model of scripts/cliente_github.py (TokenManager, graphql_request,
\* fetch_top_repositories) as driven by scripts/main.py.
\*
\* One run of main(): Config -> TokenManager(config.tokens) ->
\* fetch_top_repositories(token_manager, config.limit).  The GitHub endpoint
\* is the environment: every HTTP response is chosen nondeterministically.
EXTENDS Integers, Sequences, FiniteSets, TLC

\* ------------------------------------------------------------------ bounds
MaxTokens == 2      \* longest raw credential list drawn by Init
MaxLimit == 2       \* largest LIMIT drawn by Init (the smallest is -1)
MaxPageSize == 2    \* largest PAGE_SIZE drawn by Init (the smallest is 1)
MaxPages == 3       \* page requests (graphql_request calls) explored per run
Oversize == 1       \* nodes a response may carry beyond the requested `first`

\* ------------------------------------------------------------- python bits
Min(a, b) == IF a < b THEN a ELSE b
Max(a, b) == IF a > b THEN a ELSE b

\* Python None for a cursor; an absent header / JSON key is the empty tuple,
\* a present one is a 1-tuple of its value.
None == "None"
Absent == <<>>
Present(x) == <<x>>

\* Strings are tuples of characters, so that str.strip() can be computed.
SP == " "

RECURSIVE lstrip(_)
lstrip(s) ==
    IF s # <<>> /\ Head(s) = SP THEN lstrip(Tail(s)) ELSE s

RECURSIVE rstrip(_)
rstrip(s) ==
    IF s # <<>> /\ s[Len(s)] = SP THEN rstrip(SubSeq(s, 1, Len(s) - 1)) ELSE s

strip(s) == rstrip(lstrip(s))

\* Texts (error payloads, response bodies) are tuples of words, so that
\* .lower() and the substring test `"rate limit" in text` can be computed.
lower(w) ==
    CASE w \in {"Rate", "RATE", "rate"} -> "rate"
      [] w \in {"Limit", "LIMIT", "limit"} -> "limit"
      [] w = "API" -> "api"
      [] w = "Bad" -> "bad"
      [] w = "Not" -> "not"
      [] w = "Found" -> "found"
      [] OTHER -> w

lower_text(t) == [i \in 1..Len(t) |-> lower(t[i])]

\* `"rate limit" in text`
mentions_rate_limit(t) ==
    \E i \in 1..(Len(t) - 1) : t[i] = "rate" /\ t[i + 1] = "limit"

\* ------------------------------------------------------------------ inputs
TokenStrings == {<<SP>>, <<"a">>, <<SP, "b", SP>>}

SeqsUpTo(S, n) == UNION {[1..k -> S] : k \in 0..n}

RawTokenLists == SeqsUpTo(TokenStrings, MaxTokens)

Limits == (-1)..MaxLimit

PageSizes == 1..MaxPageSize

\* The endpoint of a run: "any" answers each request in any way at all; the
\* others are the simulated endpoints of the testable properties.
\*   "always_502"   answers every request with HTTP 502
\*   "429_429_200"  answers the first two attempts of a query with HTTP 429
\*                  and the third with a 200 that carries data
\*   "full_pages"   never has a short page: a 200 that carries data has
\*                  exactly `first` repositories and hasNextPage = true
Endpoints == {"any", "always_502", "429_429_200", "full_pages"}

\* Response headers X-RateLimit-Remaining / X-RateLimit-Reset, and time.time().
RemainingHeaders == {Absent, Present(0), Present(1), Present(2)}
ResetHeaders == {Absent, Present(0), Present(9)}
Nows == {4, 10, 11, 12}

Statuses == {200, 403, 429, 500, 502, 503, 504, 400, 404}

\* payload["errors"] of a 200 response, as text.
ErrorTexts == {<<"Bad", "syntax">>, <<"API", "rate", "limit", "exceeded">>,
               <<"Rate", "Limit">>}
\* response.text of a non-200 response.
BodyTexts == {<<"Not", "Found">>, <<"API", "Rate", "Limit", "exceeded">>}

Cursors == {None, "c1", "c2"}

\* data.search.pageInfo: absent, or an object whose hasNextPage may be absent.
PageInfos ==
    {Absent}
    \cup {Present([hasNextPage |-> Present(TRUE), endCursor |-> c]) :
             c \in Cursors \ {None}}
    \cup {Present([hasNextPage |-> Present(FALSE), endCursor |-> "c1"]),
          Present([hasNextPage |-> Absent, endCursor |-> None])}

\* A repository record is the serial number the search gave it; a null node is 0.
Null == 0

\* The nodes of a page: for each position, whether it holds a repository.
\* Every mix of repositories and nulls up to the size asked for, and the
\* pages of repositories that exceed it.
Shapes(first) ==
    SeqsUpTo(BOOLEAN, first)
    \cup {[i \in 1..n |-> TRUE] : n \in (first + 1)..(first + Oversize)}

NodesOf(shape, servedBefore) ==
    [i \in 1..Len(shape) |->
        IF shape[i]
        THEN servedBefore + Cardinality({j \in 1..i : shape[j]})
        ELSE Null]

\* ------------------------------------------------------------------- state
VARIABLES
    endpoint,      \* how the GitHub endpoint answers during this run
    pc,            \* position of main(): "main", "fetch", "loop", "attempt",
                   \* "awaiting", "done", "failed"
    rawTokens,     \* config.tokens
    limit,         \* config.limit
    PAGE_SIZE,     \* configuracao.PAGE_SIZE
    tokens,        \* TokenManager.tokens
    index,         \* TokenManager.index
    all_repos,     \* fetch_top_repositories locals
    cursor,
    remaining,
    batch_size,
    attempts,      \* graphql_request locals
    max_attempts,
    result,        \* value returned by fetch_top_repositories, if any
    error,         \* exception that ended the run, if any
    \* history of the run, read by the properties only
    pages,         \* graphql_request calls made so far
    audit,         \* whether `earlier` is kept during this run
    earlier,       \* HTTP requests issued by the calls that have ended
    inflight,      \* the most recent HTTP request: credential, first, after
    lastSuccess,   \* the most recent response, when it was a 200 without errors
    served,        \* repositories the endpoint has handed out so far
    requests,      \* HTTP requests issued by the current graphql_request call
    rotations,     \* next_token calls made by the current graphql_request call
    startIndex,    \* TokenManager.index when the current call began
    used,          \* indices whose credential the current call has sent, that
                   \* is, the ones sent since the last 200 that carried data
    prevEnd,       \* pageInfo.endCursor of the last 200 that carried data
    lastOk,        \* index whose credential the request of that 200 carried
    slept,         \* the sleep made by the most recent step, if any
    pagesBounded   \* no page so far held more repositories than its `first`

vars == <<endpoint, pc, rawTokens, limit, PAGE_SIZE, tokens, index, all_repos, cursor,
          remaining, batch_size, attempts, max_attempts, result, error,
          pages, earlier, inflight, lastSuccess, served, requests, rotations,
          startIndex, used, prevEnd, lastOk, slept, pagesBounded, audit>>

config == <<endpoint, rawTokens, limit, PAGE_SIZE, audit>>
fetchLocals == <<all_repos, cursor, remaining, batch_size>>
callLocals == <<attempts, max_attempts, requests, rotations, startIndex, used>>

NoError == "none"

InitAudited(endpoints, raws, limits, sizes, audits) ==
    /\ endpoint \in endpoints
    /\ audit \in audits
    /\ pc = "main"
    /\ rawTokens \in raws
    /\ limit \in limits
    /\ PAGE_SIZE \in sizes
    /\ tokens = <<>>
    /\ index = 0
    /\ all_repos = <<>>
    /\ cursor = None
    /\ remaining = 0
    /\ batch_size = 0
    /\ attempts = 0
    /\ max_attempts = 0
    /\ result = Absent
    /\ error = NoError
    /\ pages = 0
    /\ earlier = 0
    /\ inflight = Absent
    /\ lastSuccess = Absent
    /\ served = 0
    /\ requests = 0
    /\ rotations = 0
    /\ startIndex = 0
    /\ used = {}
    /\ prevEnd = None
    /\ lastOk = Absent
    /\ slept = Absent
    /\ pagesBounded = TRUE

InitWith(endpoints, raws, limits, sizes) ==
    InitAudited(endpoints, raws, limits, sizes, {FALSE})

\* The small configurations, and LIMIT=25 with PAGE_SIZE=10 against the
\* endpoint that always has a full page.
Init ==
    \/ InitWith(Endpoints \ {"full_pages"}, RawTokenLists, Limits, PageSizes)
    \/ InitWith({"full_pages"}, RawTokenLists, {25}, {10})

\* ------------------------------------------------------------ TokenManager
cleaned_tokens_keeping_blank(raw) ==
    LET kept == SelectSeq(raw, LAMBDA t : t # <<>>)
    IN  [i \in 1..Len(kept) |-> strip(kept[i])]

\* [token.strip() for token in tokens if token and token.strip()]
cleaned_tokens(raw) ==
    LET kept == SelectSeq(raw, LAMBDA t : t # <<>> /\ strip(t) # <<>>)
    IN  [i \in 1..Len(kept) |-> strip(kept[i])]

next_token_without_wrap(i, count) == IF i + 1 < count THEN i + 1 ELSE i

\* TokenManager.next_token: the index after one rotation.
next_token(i, count) == (i + 1) % count

\* TokenManager.current_token
current_token == tokens[index + 1]

wait_seconds_without_floor(reset_timestamp, now) == reset_timestamp - now + 2

\* TokenManager.sleep_until_reset: wait_seconds
wait_seconds(reset_timestamp, now) == Max(1, reset_timestamp - now + 2)

\* main(): token_manager = TokenManager(config.tokens)
TokenManager_init ==
    /\ pc = "main"
    /\ LET cleaned == cleaned_tokens(rawTokens)
       IN  IF cleaned = <<>>
           THEN /\ error' = "ConfigurationError"
                /\ pc' = "failed"
                /\ UNCHANGED <<tokens, index>>
           ELSE /\ tokens' = cleaned
                /\ index' = 0
                /\ pc' = "fetch"
                /\ UNCHANGED error
    /\ slept' = Absent
    /\ UNCHANGED <<config, fetchLocals, callLocals, result, pages, earlier,
                   inflight, lastSuccess, prevEnd, lastOk, served, pagesBounded>>

\* ------------------------------------------------------------ the endpoint
\* A response to one POST.  `first` is the page size the request asked for.
ErrorResponses ==
    {[status |-> 200, errors |-> Present(e), text |-> <<>>, remaining |-> rem,
      reset |-> rst, nodes |-> <<>>, pageInfo |-> Absent] :
        e \in ErrorTexts, rem \in {Absent, Present(0)}, rst \in ResetHeaders}

FailureResponses ==
    {[status |-> st, errors |-> Absent, text |-> t, remaining |-> rem,
      reset |-> rst, nodes |-> <<>>, pageInfo |-> Absent] :
        st \in Statuses \ {200}, t \in BodyTexts,
        rem \in {Present(0)}, rst \in ResetHeaders}

DataResponses(shapes, pageInfos) ==
    {[status |-> 200, errors |-> Absent, text |-> <<>>, remaining |-> rem,
      reset |-> rst, nodes |-> NodesOf(shape, served), pageInfo |-> pi] :
        shape \in shapes, pi \in pageInfos,
        rem \in RemainingHeaders, rst \in {Present(9)}}

SuccessResponses(first) == DataResponses(Shapes(first), PageInfos)

FullPageResponses(first) ==
    DataResponses({[i \in 1..first |-> TRUE]},
                  {pi \in PageInfos :
                      pi # Absent /\ pi[1].hasNextPage = Present(TRUE)})

ApiResponses(first) ==
    CASE endpoint = "any" ->
            ErrorResponses \cup FailureResponses \cup SuccessResponses(first)
      [] endpoint = "always_502" ->
            {r \in FailureResponses : r.status = 502}
      [] endpoint = "429_429_200" ->
            IF attempts <= 2
            THEN {r \in FailureResponses : r.status = 429}
            ELSE SuccessResponses(first)
      [] endpoint = "full_pages" ->
            ErrorResponses \cup FailureResponses \cup FullPageResponses(first)

\* ---------------------------------------------------------- graphql_request
max_attempts_without_floor(count) == count * 3
max_attempts_below_count(count) == Max(1, count - 1)

\* max_attempts = max(5, len(token_manager.tokens) * 3)
max_attempts_for(count) == Max(5, count * 3)

TransientStatusesAnd404 == {500, 502, 503, 504, 404}

RateLimitStatuses == {403, 429}
TransientStatuses == {500, 502, 503, 504}

header_int_assuming_quota(h, default) == IF h = Absent THEN 2 ELSE h[1]

\* int(response.headers.get(name, default))
header_int(h, default) == IF h = Absent THEN default ELSE h[1]


classify_with_status(r, rate_limit_statuses, retry_every_error) ==
    IF r.status = 200
    THEN IF r.errors # Absent
         THEN IF retry_every_error
                 \/ mentions_rate_limit(lower_text(r.errors[1]))
              THEN "rate_limit"
              ELSE "api_error"
         ELSE "success"
    ELSE IF r.status \in rate_limit_statuses
            \/ mentions_rate_limit(lower_text(r.text))
         THEN "rate_limit"
         ELSE IF r.status \in TransientStatuses
              THEN "transient"
              ELSE "http_error"

classify_without_429(r) == classify_with_status(r, {403}, FALSE)
classify_retrying_errors(r) == classify_with_status(r, {403, 429}, TRUE)

\* The branch of graphql_request's loop body a response takes.
classify(r) ==
    IF r.status = 200
    THEN IF r.errors # Absent
         THEN IF mentions_rate_limit(lower_text(r.errors[1]))
              THEN "rate_limit"
              ELSE "api_error"
         ELSE "success"
    ELSE IF r.status \in RateLimitStatuses
            \/ mentions_rate_limit(lower_text(r.text))
         THEN "rate_limit"
         ELSE IF r.status \in TransientStatuses
              THEN "transient"
              ELSE "http_error"

rotate_on_success_below_one(rem) == rem < 1

\* if remaining <= 1: token_manager.next_token()
rotate_on_success(rem) == rem <= 1

must_sleep_on_wrap(newIndex, reset_at) == newIndex = 0

\* if token_manager.index == 0 and reset_at > 0: sleep_until_reset(reset_at)
must_sleep(newIndex, reset_at) == newIndex = 0 /\ reset_at > 0

backoff_seconds_from_zero(n) == 5 + ((n - 1) * 2)

\* wait_time = 5 + (attempts * 2)
backoff_seconds(n) == 5 + (n * 2)

\* Saturating counter of the run's history.
Count(n, cap) == IF n < cap THEN n + 1 ELSE n

\* while attempts < max_attempts: attempts += 1; response = requests.post(...)
graphql_post ==
    /\ pc = "attempt"
    /\ attempts < max_attempts
    /\ attempts' = attempts + 1
    /\ inflight' = Present([index |-> index, cred |-> current_token,
                            first |-> batch_size, after |-> cursor])
    /\ requests' = requests + 1
    /\ used' = used \cup {index}
    /\ pc' = "awaiting"
    /\ slept' = Absent
    /\ UNCHANGED <<config, tokens, index, fetchLocals, max_attempts, rotations,
                   startIndex, result, error, pages, earlier, lastSuccess, prevEnd, lastOk,
                   served, pagesBounded>>

\* the loop ends without a return: raise RuntimeError("Não foi possível ...")
graphql_exhausted ==
    /\ pc = "attempt"
    /\ ~(attempts < max_attempts)
    /\ error' = "ExhaustedRetriesError"
    /\ pc' = "failed"
    /\ slept' = Absent
    /\ UNCHANGED <<config, tokens, index, fetchLocals, callLocals, result,
                   pages, earlier, inflight, lastSuccess, prevEnd, lastOk, served,
                   pagesBounded>>

\* token_manager.next_token(); if index == 0 and reset_at > 0: sleep; continue
rate_limited(r, reset_at) ==
    LET newIndex == next_token(index, Len(tokens))
    IN  /\ index' = newIndex
        /\ rotations' = rotations + 1
        /\ IF must_sleep(newIndex, reset_at)
           THEN \E now \in Nows :
                    slept' = Present([kind |-> "reset",
                                      seconds |-> wait_seconds(reset_at, now),
                                      reset |-> reset_at, now |-> now])
           ELSE slept' = Absent
        /\ pc' = "attempt"
        /\ lastSuccess' = Absent
        /\ UNCHANGED <<fetchLocals, result, error, prevEnd, lastOk, served,
                       pagesBounded>>

\* time.sleep(5 + attempts * 2); continue
transient_error(r) ==
    /\ slept' = Present([kind |-> "backoff",
                         seconds |-> backoff_seconds(attempts)])
    /\ pc' = "attempt"
    /\ lastSuccess' = Absent
    /\ UNCHANGED <<index, rotations, fetchLocals, result, error, prevEnd, lastOk,
                   served, pagesBounded>>

raise_error_returning_partial(name) ==
    /\ error' = name
    /\ result' = Present(all_repos)
    /\ pc' = "done"
    /\ slept' = Absent
    /\ lastSuccess' = Absent
    /\ UNCHANGED <<index, rotations, fetchLocals, prevEnd, lastOk, served,
                   pagesBounded>>

\* raise RuntimeError(...): nothing in fetch_top_repositories or main catches it
raise_error(name) ==
    /\ error' = name
    /\ pc' = "failed"
    /\ slept' = Absent
    /\ lastSuccess' = Absent
    /\ UNCHANGED <<index, rotations, fetchLocals, result, prevEnd, lastOk, served,
                   pagesBounded>>

\* ---------------------------------------------------- fetch_top_repositories
batch_size_ignoring_remaining(page_size, rem) == page_size
batch_size_ignoring_page_size(page_size, rem) == rem

\* batch_size = min(PAGE_SIZE, remaining)
batch_size_for(page_size, rem) == Min(page_size, rem)

\* [node for node in search_result["nodes"] if node is not None]
non_null(nodes) == SelectSeq(nodes, LAMBDA n : n # Null)

\* page_info.get("hasNextPage"), as Python truth
has_next_page(pi) ==
    /\ pi # Absent
    /\ pi[1].hasNextPage # Absent
    /\ pi[1].hasNextPage[1]

\* page_info.get("endCursor")
end_cursor(pi) == IF pi = Absent THEN None ELSE pi[1].endCursor

accumulated_in_front(repos) == repos \o all_repos

\* all_repos.extend(repos)
accumulated(repos) == all_repos \o repos

last_page_when_full(pi, rem) == rem <= 0

\* if not page_info.get("hasNextPage") or remaining <= 0: break
last_page(pi, rem) == ~has_next_page(pi) \/ rem <= 0

\* the rest of the loop body of fetch_top_repositories, once data is returned:
\* extend, count down, then break or move the cursor and pause
fetch_page(r) ==
    LET repos == non_null(r.nodes)
        rem == remaining - Len(repos)
    IN  /\ all_repos' = accumulated(repos)
        /\ remaining' = rem
        /\ served' = served + Cardinality({i \in 1..Len(r.nodes) :
                                              r.nodes[i] # Null})
        /\ pagesBounded' = (pagesBounded /\ Len(repos) <= batch_size)
        /\ IF last_page(r.pageInfo, rem)
           THEN /\ result' = Present(accumulated(repos))
                /\ pc' = "done"
                /\ slept' = Absent
                /\ UNCHANGED cursor
           ELSE /\ cursor' = end_cursor(r.pageInfo)
                /\ slept' = Present([kind |-> "courtesy", seconds |-> 1])
                /\ pc' = "loop"
                /\ UNCHANGED result
        /\ UNCHANGED <<batch_size, error>>

\* 200 without errors: rotate when the quota is nearly spent, return the data
success(r, rem) ==
    /\ IF rotate_on_success(rem)
       THEN /\ index' = next_token(index, Len(tokens))
            /\ rotations' = rotations + 1
       ELSE UNCHANGED <<index, rotations>>
    /\ lastSuccess' = Present([index |-> inflight[1].index,
                               cred |-> inflight[1].cred,
                               header |-> r.remaining,
                               remaining |-> rem,
                               hasNextPage |-> has_next_page(r.pageInfo),
                               endCursor |-> end_cursor(r.pageInfo)])
    /\ prevEnd' = end_cursor(r.pageInfo)
    /\ lastOk' = Present(inflight[1].index)
    /\ fetch_page(r)

\* one response, through the body of graphql_request's loop
graphql_response(r) ==
    /\ pc = "awaiting"
    /\ LET rem == header_int(r.remaining, 1)
           reset_at == header_int(r.reset, 0)
           branch == classify(r)
       IN  CASE branch = "success" -> success(r, rem)
             [] branch = "rate_limit" -> rate_limited(r, reset_at)
             [] branch = "transient" -> transient_error(r)
             [] branch = "api_error" -> raise_error("ApiError")
             [] branch = "http_error" -> raise_error("HttpError")
    /\ UNCHANGED <<config, tokens, attempts, max_attempts, requests,
                   startIndex, used, pages, earlier, inflight>>

fetch_top_repositories_unguarded ==
    /\ pc = "fetch"
    /\ all_repos' = <<>>
    /\ cursor' = None
    /\ remaining' = limit
    /\ batch_size' = batch_size_for(PAGE_SIZE, limit)
    /\ attempts' = 0
    /\ max_attempts' = max_attempts_for(Len(tokens))
    /\ requests' = 0
    /\ rotations' = 0
    /\ startIndex' = index
    /\ used' = {}
    /\ pages' = Count(pages, MaxPages)
    /\ earlier' = (IF audit THEN earlier + requests ELSE earlier)
    /\ pc' = "attempt"
    /\ slept' = Absent
    /\ UNCHANGED <<config, tokens, index, result, error, inflight, lastSuccess,
                   prevEnd, lastOk, served, pagesBounded>>

\* fetch_top_repositories(token_manager, limit), up to the loop
fetch_top_repositories ==
    /\ pc = "fetch"
    /\ IF limit <= 0
       THEN /\ result' = Present(<<>>)
            /\ pc' = "done"
            /\ UNCHANGED fetchLocals
       ELSE /\ all_repos' = <<>>
            /\ cursor' = None
            /\ remaining' = limit
            /\ pc' = "loop"
            /\ UNCHANGED <<batch_size, result>>
    /\ slept' = Absent
    /\ UNCHANGED <<config, tokens, index, callLocals, error, pages, earlier,
                   inflight, lastSuccess, prevEnd, lastOk, served, pagesBounded>>

fetch_loop_keeping_attempts ==
    /\ pc = "loop"
    /\ IF remaining > 0
       THEN /\ batch_size' = batch_size_for(PAGE_SIZE, remaining)
            /\ attempts' = attempts
            /\ max_attempts' = max_attempts_for(Len(tokens))
            /\ requests' = 0
            /\ rotations' = 0
            /\ startIndex' = index
            /\ used' = {}
            /\ pages' = Count(pages, MaxPages)
            /\ earlier' = (IF audit THEN earlier + requests ELSE earlier)
            /\ pc' = "attempt"
            /\ UNCHANGED result
       ELSE /\ result' = Present(all_repos)
            /\ pc' = "done"
            /\ UNCHANGED <<batch_size, callLocals, pages, earlier>>
    /\ slept' = Absent
    /\ UNCHANGED <<config, tokens, index, all_repos, cursor, remaining, error,
                   inflight, lastSuccess, prevEnd, lastOk, served, pagesBounded>>

\* while remaining > 0: batch_size = ...; data = graphql_request(...)
fetch_loop ==
    /\ pc = "loop"
    /\ IF remaining > 0
       THEN /\ batch_size' = batch_size_for(PAGE_SIZE, remaining)
            /\ attempts' = 0
            /\ max_attempts' = max_attempts_for(Len(tokens))
            /\ requests' = 0
            /\ rotations' = 0
            /\ startIndex' = index
            /\ used' = {}
            /\ pages' = Count(pages, MaxPages)
            /\ earlier' = (IF audit THEN earlier + requests ELSE earlier)
            /\ pc' = "attempt"
            /\ UNCHANGED result
       ELSE /\ result' = Present(all_repos)
            /\ pc' = "done"
            /\ UNCHANGED <<batch_size, callLocals, pages, earlier>>
    /\ slept' = Absent
    /\ UNCHANGED <<config, tokens, index, all_repos, cursor, remaining, error,
                   inflight, lastSuccess, prevEnd, lastOk, served, pagesBounded>>

\* ----------------------------------------------------------- specifications
Respond == \E r \in ApiResponses(batch_size) : graphql_response(r)

PageBudget == pages < MaxPages

Next ==
    \/ TokenManager_init
    \/ fetch_top_repositories
    \/ (PageBudget /\ fetch_loop)
    \/ graphql_post
    \/ graphql_exhausted
    \/ Respond

Spec == Init /\ [][Next]_vars

\* The same program without the bound on page requests, every step of it
\* eventually taken: no sleep, and no request, lasts forever.
LiveInit == InitWith({"any"}, RawTokenLists, {0, 1}, {1})

LiveNext ==
    \/ TokenManager_init
    \/ fetch_top_repositories
    \/ fetch_loop
    \/ graphql_post
    \/ graphql_exhausted
    \/ Respond

LiveSpec == LiveInit /\ [][LiveNext]_vars /\ WF_vars(LiveNext)

\* The runs that page one repository at a time against the endpoint that may
\* answer anything: every sequence of responses to the requests of up to
\* MaxPages calls of graphql_request, for every credential list.
CallInit == InitWith({"any"}, RawTokenLists, {MaxLimit}, {1})

CallSpec == CallInit /\ [][Next]_vars

\* Such runs for LIMIT = 1 and every number of credentials, with the HTTP
\* requests of the whole run totalled.
AuditInit ==
    InitAudited({"any"}, SeqsUpTo({<<"a">>}, MaxTokens), {1}, {1}, {TRUE})

AuditSpec == AuditInit /\ [][Next]_vars

\* ------------------------------------------------------------- properties
InLoop == pc \in {"loop", "attempt", "awaiting"}
Returned == pc = "done"
Count3(n) == IF n * 3 > 5 THEN n * 3 ELSE 5
Upto(n) == [i \in 1..n |-> i]

\* C1 (as stated): whenever no page held more repositories than its request
\* asked for, the accumulator in the pagination loop and the sequence returned
\* have length <= limit, for every limit.
C1_LengthAtMostLimit ==
    pagesBounded =>
        /\ InLoop => Len(all_repos) <= limit
        /\ Returned => Len(result[1]) <= limit

\* C1 (amended): the same with limit read as max(limit, 0): a negative limit
\* returns the empty sequence, whose length 0 exceeds it.
C1_LengthAtMostLimitOrZero ==
    pagesBounded =>
        /\ InLoop => Len(all_repos) <= Max(limit, 0)
        /\ Returned => Len(result[1]) <= Max(limit, 0)

C1_Witness ==
    /\ Returned
    /\ pagesBounded
    /\ pages >= 2
    /\ limit = MaxLimit
    /\ Len(result[1]) = limit

\* C2: fetch_top_repositories terminates (returns or raises) in every run in
\* which every request is answered, also when pages without repositories keep
\* reporting hasNextPage = true.
C2_Terminates == <>(pc \in {"done", "failed"})

\* C3: with limit <= 0 no HTTP request is ever issued, and the call returns
\* the empty sequence with the rotator still at the index it was built with.
C3_NoRequestForEmptyLimit ==
    limit <= 0 =>
        /\ inflight = Absent
        /\ requests = 0
        /\ pc \in {"main", "fetch", "done", "failed"}
        /\ Returned => result = Present(<<>>) /\ index = 0 /\ rotations = 0

C3_Witness ==
    /\ Returned
    /\ limit <= 0
    /\ Len(tokens) = 2

LastRemaining == lastSuccess[1].remaining
AfterSuccessWithOneLeft ==
    /\ pc = "awaiting"
    /\ lastSuccess # Absent
    /\ LastRemaining = 1
Distinct(seq) == \A i, j \in 1..Len(seq) : i # j => seq[i] # seq[j]

\* C5 (as stated): after a 200 that carries data with one request remaining,
\* the next request carries another credential, for every credential set.
C5_NextCredentialDiffers ==
    AfterSuccessWithOneLeft => inflight[1].cred # lastSuccess[1].cred

\* C5 (amended): the next request carries the credential one position further
\* round the list, a different one when the list holds two or more credentials
\* that are pairwise distinct.
C5_NextCredentialIsNextInList ==
    AfterSuccessWithOneLeft =>
        /\ inflight[1].index = (lastSuccess[1].index + 1) % Len(tokens)
        /\ inflight[1].cred = tokens[inflight[1].index + 1]
        /\ (Len(tokens) >= 2 /\ Distinct(tokens)) =>
              inflight[1].cred # lastSuccess[1].cred

C5_Witness ==
    /\ AfterSuccessWithOneLeft
    /\ Len(tokens) >= 2
    /\ Distinct(tokens)
    /\ lastSuccess[1].index = 1

CallReturnedData == pc \in {"loop", "done"} /\ lastSuccess # Absent

\* C6 (as stated): against the endpoint that answers 429, 429, 200 the call
\* returns the data having advanced the rotator exactly twice, whatever the
\* 200 says about the remaining quota.
C6_RotatedTwice ==
    endpoint = "429_429_200" =>
        /\ error \in {NoError, "ConfigurationError"}
        /\ requests <= 3
        /\ CallReturnedData =>
              /\ requests = 3
              /\ all_repos = Upto(served)
              /\ rotations = 2

\* C6 (amended): exactly twice when the 200 reports more than one request
\* remaining; three times when it reports one or none, or has no such header.
C6_RotatedTwiceOrThrice ==
    endpoint = "429_429_200" =>
        /\ error \in {NoError, "ConfigurationError"}
        /\ requests <= 3
        /\ CallReturnedData =>
              /\ requests = 3
              /\ all_repos = Upto(served)
              /\ rotations = (IF LastRemaining > 1 THEN 2 ELSE 3)
              /\ index = (startIndex + rotations) % Len(tokens)

C6_Witness ==
    /\ endpoint = "429_429_200"
    /\ CallReturnedData
    /\ LastRemaining > 1
    /\ rotations = 2
    /\ Len(tokens) = 2

\* C7: against the endpoint that always answers 502 the call makes exactly
\* max(5, count*3) requests, then raises the exhausted-retries error and
\* returns nothing; and no call, against any endpoint, makes more requests.
C7_ExhaustsAfterMaxAttempts ==
    /\ tokens # <<>> => requests <= Count3(Len(tokens))
    /\ error = "ExhaustedRetriesError" =>
          /\ pc = "failed"
          /\ requests = Count3(Len(tokens))
          /\ result = Absent
    /\ (endpoint = "always_502" /\ limit > 0) =>
          /\ pc # "done"
          /\ result = Absent
          /\ pc = "failed" =>
                error \in {"ConfigurationError", "ExhaustedRetriesError"}

C7_Witness ==
    /\ endpoint = "always_502"
    /\ error = "ExhaustedRetriesError"
    /\ Len(tokens) = 2
    /\ requests = 6

IsApiErrorResponse(r) ==
    /\ r.status = 200
    /\ r.errors # Absent
    /\ r.errors[1] \in {<<"Bad", "syntax">>}

\* C8: a 200 whose errors do not mention rate limiting ends the call at once
\* with ApiError: the rotator is not advanced, nothing sleeps, no value is
\* returned and no further request is issued, whatever budget is left.
C8_ApiErrorIsFatal ==
    [][ /\ \A r \in ErrorResponses :
             (IsApiErrorResponse(r) /\ graphql_response(r)) =>
                 /\ pc' = "failed"
                 /\ error' = "ApiError"
                 /\ index' = index
                 /\ rotations' = rotations
                 /\ requests' = requests
                 /\ slept' = Absent
                 /\ result' = Absent
        /\ pc # "failed"
        /\ error' = "ApiError" => error = NoError
      ]_vars

C8_Witness ==
    /\ error = "ApiError"
    /\ pc = "failed"
    /\ requests = 1
    /\ requests < max_attempts
    /\ Len(tokens) = 2

IsBlank(t) == \A j \in 1..Len(t) : t[j] = SP
Trimmed(t) == t # <<>> /\ t[1] # SP /\ t[Len(t)] # SP
Constructed == pc # "main"

\* C9: a credential list that is empty or all blank fails construction with
\* the configuration error before any HTTP request; any other list gives at
\* least one credential, each non-empty and trimmed, and active index 0.
C9_ConstructionChecksTokens ==
    /\ (Constructed /\ \A i \in 1..Len(rawTokens) : IsBlank(rawTokens[i])) =>
          /\ pc = "failed"
          /\ error = "ConfigurationError"
          /\ inflight = Absent
          /\ requests = 0
    /\ (Constructed /\ \E i \in 1..Len(rawTokens) : ~IsBlank(rawTokens[i])) =>
          /\ error # "ConfigurationError"
          /\ Len(tokens) >= 1
          /\ \A i \in 1..Len(tokens) : Trimmed(tokens[i])
          /\ pc = "fetch" => index = 0
    /\ error = "ConfigurationError" => inflight = Absent /\ pc = "failed"

C9_Witness ==
    /\ error = "ConfigurationError"
    /\ Len(rawTokens) = 2
    /\ pc = "failed"

\* C10: count calls of next_token bring the active index back to where it
\* started, from every starting index, and the index is always in [0, count).
C10_RotationIsCircular ==
    tokens # <<>> =>
        /\ index \in 0..(Len(tokens) - 1)
        /\ startIndex \in 0..(Len(tokens) - 1)
        /\ rotations % Len(tokens) = 0 => index = startIndex

C10_Witness ==
    /\ Len(tokens) = 2
    /\ startIndex = 1
    /\ rotations = 2
    /\ index = 1

FatalErrors == {"ApiError", "HttpError", "ExhaustedRetriesError"}

\* C11: a fatal error of a page request (ApiError, HttpError or
\* ExhaustedRetriesError) ends the run in failure with that error: nothing is
\* returned, whatever was accumulated, and no request follows the failing one.
C11_FatalErrorPropagates ==
    [][ /\ (error' \in FatalErrors /\ error = NoError) =>
              /\ pc' = "failed"
              /\ result' = Absent
              /\ inflight' = inflight
              /\ requests' = requests
        /\ error \in FatalErrors =>
              /\ error' = error
              /\ pc' = "failed"
              /\ result' = Absent
              /\ inflight' = inflight
      ]_vars

C11_Witness ==
    /\ pc = "failed"
    /\ error = "HttpError"
    /\ pages >= 2
    /\ Len(all_repos) >= 1
    /\ result = Absent

\* C12: the accumulator, and the sequence returned, is the in-order
\* concatenation of the non-null records of the 200 responses that carried
\* data, each taken once however many attempts its request needed; the first
\* request carries a null cursor and every later one the endCursor of the
\* last such response.
C12_ConcatenationInOrder ==
    /\ all_repos = Upto(served)
    /\ (Returned /\ limit > 0) => result = Present(Upto(served))
    /\ pc = "awaiting" =>
          /\ inflight[1].after = prevEnd
          /\ pages = 1 => inflight[1].after = None

C12_Witness ==
    /\ Returned
    /\ pages >= 2
    /\ requests >= 2
    /\ prevEnd # None
    /\ result = Present(<<1, 2>>)

Blocked == slept # Absent /\ slept[1].kind = "reset"
Credentials(indices) == {tokens[i + 1] : i \in indices}
AllCredentials == Credentials(0..(Len(tokens) - 1))
SentSinceLastOk == used \cup (IF lastOk = Absent THEN {} ELSE {lastOk[1]})

\* C13: whenever graphql_request blocks in sleep_until_reset, every credential
\* of the set has been sent since the last successful request (the credential
\* of that request counted too), whatever index the call began with.
C13_AllTriedBeforeWaiting ==
    Blocked => Credentials(SentSinceLastOk) = AllCredentials

Exhausted == error = "ExhaustedRetriesError"

\* C14 (as stated): whenever graphql_request gives up with the
\* exhausted-retries error, every credential of the set has been sent in at
\* least one attempt of that call, whatever retryable responses it met.
C14_AllTriedBeforeGivingUp ==
    Exhausted => Credentials(used) = AllCredentials

\* C14 (amended): every credential has been sent when at least count of the
\* call's attempts were rate-limited, as when all of them were; when none was
\* (every attempt met a 5xx) only the credential the call began with was sent.
C14_AllTriedWhenRateLimited ==
    Exhausted =>
        /\ rotations >= Len(tokens) => Credentials(used) = AllCredentials
        /\ rotations = requests => Credentials(used) = AllCredentials
        /\ rotations = 0 => used = {startIndex}

C14_Witness ==
    /\ Exhausted
    /\ Len(tokens) = 2
    /\ Distinct(tokens)
    /\ rotations = requests
    /\ used = {0, 1}

IsRateLimited(r) ==
    \/ /\ r.status = 200
       /\ r.errors # Absent
       /\ mentions_rate_limit(lower_text(r.errors[1]))
    \/ r.status \in {403, 429}
    \/ /\ r.status # 200
       /\ mentions_rate_limit(lower_text(r.text))

RateLimitedResponses ==
    {r \in ErrorResponses \cup FailureResponses : IsRateLimited(r)}

\* C15: every response classified as rate-limited (a 200 whose errors mention
\* rate limit, a 403 or 429, a non-200 whose body mentions rate limit) advances
\* the rotator exactly once, blocks in sleep_until_reset exactly when the new
\* index is 0 and the reset epoch is > 0, and leaves the call running with the
\* same cursor and page size, which the next attempt sends again; the call
\* raises over rate limiting only once max(5, count*3) requests were made.
C15_RateLimitRotatesAndRetries ==
    [][ /\ \A r \in RateLimitedResponses :
             graphql_response(r) =>
                 /\ index' = (index + 1) % Len(tokens)
                 /\ rotations' = rotations + 1
                 /\ (slept' # Absent) <=>
                        (index' = 0 /\ r.reset # Absent /\ r.reset[1] > 0)
                 /\ slept' # Absent => slept'[1].kind = "reset"
                 /\ pc' = "attempt"
                 /\ error' = NoError
                 /\ result' = Absent
                 /\ cursor' = cursor
                 /\ batch_size' = batch_size
        /\ (pc = "attempt" /\ pc' = "awaiting" /\ requests >= 1) =>
              /\ inflight'[1].first = inflight[1].first
              /\ inflight'[1].after = inflight[1].after
              /\ inflight'[1].index = index
        /\ (pc = "attempt" /\ pc' = "failed") =>
              /\ error' = "ExhaustedRetriesError"
              /\ requests = Count3(Len(tokens))
      ]_vars

C15_Witness ==
    /\ Blocked
    /\ pc = "attempt"
    /\ error = NoError
    /\ rotations >= 2
    /\ Len(tokens) = 2

BodyMentionsRateLimit(r) == mentions_rate_limit(lower_text(r.text))

ServerErrorResponses ==
    {r \in FailureResponses : r.status \in {500, 502, 503, 504}}

PlainServerErrorResponses ==
    {r \in ServerErrorResponses : ~BodyMentionsRateLimit(r)}

BackedOff(r) ==
    graphql_response(r) =>
        /\ index' = index
        /\ rotations' = rotations
        /\ attempts >= 1
        /\ slept' = Present([kind |-> "backoff",
                             seconds |-> 5 + (attempts * 2)])
        /\ pc' = "attempt"
        /\ error' = NoError

\* C16 (as stated): every response with status 500, 502, 503 or 504, whatever
\* its body, leaves the active index alone, waits 5 + attempt*2 seconds
\* (attempt counted from 1: 7, 9, 11, ...) and leaves the call retrying.
C16_ServerErrorBacksOff ==
    [][\A r \in ServerErrorResponses : BackedOff(r)]_vars

\* C16 (amended): the same for the 5xx responses whose body does not mention
\* rate limit; one whose body does is handled as rate-limited.
C16_PlainServerErrorBacksOff ==
    [][ /\ \A r \in PlainServerErrorResponses : BackedOff(r)
        /\ \A r \in ServerErrorResponses \ PlainServerErrorResponses :
              graphql_response(r) =>
                  /\ index' = (index + 1) % Len(tokens)
                  /\ slept' = Absent \/ slept'[1].kind = "reset"
      ]_vars

C16_Witness ==
    /\ pc = "attempt"
    /\ slept = Present([kind |-> "backoff", seconds |-> 9])
    /\ requests = 2
    /\ index = 1
    /\ rotations = 0

OtherStatusResponses ==
    {r \in FailureResponses :
        r.status \notin {200, 403, 429, 500, 502, 503, 504}}

PlainOtherStatusResponses ==
    {r \in OtherStatusResponses : ~BodyMentionsRateLimit(r)}

FailedAtOnce(r) ==
    graphql_response(r) =>
        /\ pc' = "failed"
        /\ error' = "HttpError"
        /\ index' = index
        /\ rotations' = rotations
        /\ requests' = requests
        /\ slept' = Absent
        /\ result' = Absent

\* C17 (as stated): every response with a status other than 200, 403, 429,
\* 500, 502, 503 and 504 ends the call with HttpError at once, without
\* rotation, wait or retry, whatever its body contains.
C17_OtherStatusIsFatal ==
    [][ /\ \A r \in OtherStatusResponses : FailedAtOnce(r)
        /\ error = "HttpError" => pc' = "failed" /\ inflight' = inflight
      ]_vars

\* C17 (amended): the same for the responses whose body does not mention rate
\* limit; one whose body does is handled as rate-limited: rotate and retry.
C17_PlainOtherStatusIsFatal ==
    [][ /\ \A r \in PlainOtherStatusResponses : FailedAtOnce(r)
        /\ \A r \in OtherStatusResponses \ PlainOtherStatusResponses :
              graphql_response(r) =>
                  /\ pc' = "attempt"
                  /\ error' = NoError
                  /\ index' = (index + 1) % Len(tokens)
        /\ error = "HttpError" => pc' = "failed" /\ inflight' = inflight
      ]_vars

C17_Witness ==
    /\ pc = "failed"
    /\ error = "HttpError"
    /\ requests = 1
    /\ pages = 1
    /\ index = 0
    /\ Len(tokens) = 2

NearlySpent(h) == h = Absent \/ h[1] <= 1

\* C18: a 200 that carries data is returned to fetch_top_repositories, and
\* handling it advances the rotator exactly once when its rate-limit-remaining
\* header is <= 1 or absent and not at all when it is > 1; it never blocks in
\* sleep_until_reset.
C18_SuccessRotatesWhenNearlySpent ==
    [][ (pc = "awaiting" /\ lastSuccess' # Absent) =>
            LET once == NearlySpent(lastSuccess'[1].header)
            IN  /\ index' = (IF once THEN (index + 1) % Len(tokens) ELSE index)
                /\ rotations' = (IF once THEN rotations + 1 ELSE rotations)
                /\ pc' \in {"loop", "done"}
                /\ error' = NoError
                /\ all_repos' = Upto(served')
                /\ slept' = Absent \/ slept'[1].kind = "courtesy"
      ]_vars

C18_Witness ==
    /\ pc = "loop"
    /\ lastSuccess # Absent
    /\ lastSuccess[1].header = Absent
    /\ lastSuccess[1].index = 0
    /\ index = 1
    /\ rotations = 1

Paused == slept # Absent /\ slept[1].kind = "courtesy"

\* C19: after a 200 whose pageInfo is missing or does not report a next page
\* the run has ended, returning what was accumulated, also when that is less
\* than limit, and nothing more can happen; the one-second pause is made only
\* when another page request follows, never after the last page.
C19_StopsAfterLastPage ==
    /\ (CallReturnedData /\ ~lastSuccess[1].hasNextPage) =>
          /\ Returned
          /\ result = Present(all_repos)
          /\ ~Paused
    /\ Returned => ~Paused /\ ~ENABLED Next
    /\ Paused =>
          /\ pc = "loop"
          /\ remaining > 0
          /\ lastSuccess # Absent /\ lastSuccess[1].hasNextPage
          /\ cursor = lastSuccess[1].endCursor

C19_Witness ==
    /\ Returned
    /\ lastSuccess # Absent
    /\ ~lastSuccess[1].hasNextPage
    /\ pages = 2
    /\ limit = 2
    /\ result = Present(<<1>>)

CallBegins == pc = "attempt" /\ requests = 0
Total == earlier + requests

\* C20: each call of graphql_request begins with its attempt counter at 0
\* and a budget of max(5, count*3), and with the credential the call before
\* it left active; so a call issues at most that many requests, and the whole
\* run at most (number of calls) * max(5, count*3).
C20_FreshBudgetPerCall ==
    /\ CallBegins =>
          /\ attempts = 0
          /\ max_attempts = Count3(Len(tokens))
          /\ index = startIndex
          /\ pages = 1 => index = 0
          /\ pages >= 2 =>
                index = (IF NearlySpent(lastSuccess[1].header)
                         THEN (lastOk[1] + 1) % Len(tokens)
                         ELSE lastOk[1])
    /\ pc \in {"attempt", "awaiting"} => attempts = requests
    /\ (pc = "awaiting" /\ requests = 1) => inflight[1].index = startIndex
    /\ tokens # <<>> =>
          /\ requests <= Count3(Len(tokens))
          /\ pages >= 1 => earlier <= (pages - 1) * Count3(Len(tokens))
          /\ Total <= pages * Count3(Len(tokens))

C20_Witness ==
    /\ audit
    /\ Len(tokens) = 2
    /\ pages = 3
    /\ Exhausted
    /\ Total = 18

\* C21: sleep_until_reset blocks for exactly max(1, reset - now + 2) seconds,
\* so for at least one second also when the reset epoch is in the past, and
\* the active index is the one the rotation before it set.
C21_WaitsUntilReset ==
    Blocked =>
        LET margin == slept[1].reset - slept[1].now + 2
        IN  /\ slept[1].seconds = (IF margin >= 1 THEN margin ELSE 1)
            /\ slept[1].seconds >= 1
            /\ index = (inflight[1].index + 1) % Len(tokens)
            /\ index = 0

C21_Witness ==
    /\ Blocked
    /\ slept[1].reset < slept[1].now
    /\ slept[1].seconds = 1
    /\ Len(tokens) = 2
    /\ inflight[1].index = 1

====
